---- MODULE Spec2Model ----
(***************************************************************************)
(* Client side of the AI query interface: the chat screen (ChatScreen and  *)
(* its handleSend handler), the HTTP client queryCSV, and the CSV loader   *)
(* loadData.                                                               *)
(*                                                                         *)
(* A JavaScript string is a sequence of tokens: a question is a sequence   *)
(* of characters, a literal of the program is the one-token sequence       *)
(* holding the literal.  A JavaScript value is a record [t, v]: t is the   *)
(* type tag and v the tokens of a string (<<>> for undefined).             *)
(***************************************************************************)
EXTENDS Integers, Sequences, FiniteSets, TLC

VARIABLES
    question,   \* ChatScreen state: the text of the input field
    messages,   \* ChatScreen state: the chat history
    isLoading,  \* ChatScreen state: a question awaits its reply
    presses,    \* number of times handleSend was invoked
    requests,   \* requests[k]: the GET issued by the k-th accepted handleSend
    axios,      \* axios[k]: state of the promise of axios.get for request k
    timers,     \* timers[k]: state of the setTimeout of the k-th handleSend
    race,       \* race[k]: state of the Promise.race of the k-th handleSend
    source,     \* version of the CSV files currently served
    loads       \* loads[c]: state of the c-th call of loadData

vars == <<question, messages, isLoading, presses, requests, axios, timers, race,
          source, loads>>

(***************************************************************************)
(* Bounds of the model.                                                    *)
(***************************************************************************)
MaxPresses == 2
MaxCalls == 1
MaxVersion == 2

(***************************************************************************)
(* Program constants.                                                      *)
(***************************************************************************)
PORT == 8000
\* The delay of the timer; the model lets the timer fire at any moment after
\* it is started, before or after the response.
TIMEOUT_MS == 7000
BASE_URL == <<"http://", "xxx.xxx.x.xx", ":", PORT, "/", "query">>

Whitespace == {" "}

\* The texts typed into the input field: empty, whitespace only, plain, and
\* padded with whitespace on both sides.
Texts == {<<>>, <<" ">>, <<"a">>, <<" ", "a", " ">>}

Undefined == [t |-> "undefined", v |-> <<>>]
Str(s) == [t |-> "string", v |-> s]

FALLBACK_TEXT == <<"Sorry, something went wrong while querying the data.">>
TIMEOUT_TEXT == <<"Sorry, that request timed out.">>
CATCH_TEXT == <<"Sorry, something went wrong.">>
BackendAnswer == <<"answer">>

(***************************************************************************)
(* String.prototype.trim: leading and trailing whitespace removed.         *)
(***************************************************************************)
RECURSIVE TrimStart(_)
TrimStart(s) ==
    IF s = <<>> THEN s
    ELSE IF Head(s) \in Whitespace THEN TrimStart(Tail(s)) ELSE s

RECURSIVE TrimEnd(_)
TrimEnd(s) ==
    IF s = <<>> THEN s
    ELSE IF s[Len(s)] \in Whitespace THEN TrimEnd(SubSeq(s, 1, Len(s) - 1)) ELSE s

\* Faulty variant of Trim: nothing is removed.
TrimIdentity(s) == s

Trim(s) == TrimEnd(TrimStart(s))

(***************************************************************************)
(* Promises.                                                               *)
(***************************************************************************)
Pending == [state |-> "pending", value |-> Undefined]
Fulfilled(val) == [state |-> "fulfilled", value |-> val]
Rejected(val) == [state |-> "rejected", value |-> val]

(***************************************************************************)
(* axios.get: the promise is pending, fulfilled with a response (2xx) or   *)
(* rejected (non-2xx status, network failure).  detail is the payload of a *)
(* response or the cause of a rejection.                                   *)
(***************************************************************************)
AxiosPending == [state |-> "pending", detail |-> "none"]
AxiosOutcomes ==
    {[state |-> "fulfilled", detail |-> d] : d \in {"answer", "noAnswerField", "noPayload"}}
    \cup {[state |-> "rejected", detail |-> d] : d \in {"badStatus", "network"}}

\* response.data.answer: reading a property of a missing payload throws.
ReadAnswer(detail) ==
    CASE detail = "answer" -> [threw |-> FALSE, value |-> Str(BackendAnswer)]
      [] detail = "noAnswerField" -> [threw |-> FALSE, value |-> Undefined]
      [] OTHER -> [threw |-> TRUE, value |-> Undefined]

\* Faulty variant of QueryRequest: the text of the last message is sent along.
QueryRequestWithHistory(q) ==
    [url |-> BASE_URL,
     params |-> [question |-> IF messages = <<>> THEN q
                              ELSE messages[Len(messages)].text.v \o q]]

\* The GET of queryCSV(question).
QueryRequest(q) == [url |-> BASE_URL, params |-> [question |-> q]]

\* The settlement of the promise of queryCSV once axios.get settled.
queryCSV(outcome) ==
    IF outcome.state = "rejected" THEN Fulfilled(Str(FALLBACK_TEXT))
    ELSE IF ReadAnswer(outcome.detail).threw THEN Fulfilled(Str(FALLBACK_TEXT))
    ELSE Fulfilled(ReadAnswer(outcome.detail).value)

\* Faulty variant of TimeoutSettlement: the timer resolves nothing.
TimeoutSettlementNever == Pending

\* The settlement of the timeout promise once its timer fired.
TimeoutSettlement == Fulfilled(Str(TIMEOUT_TEXT))

\* The user message of handleSend: { sender: 'user', text: question }.
UserMessage(q) == [sender |-> "user", text |-> Str(q)]

\* The bot message of handleSend after its await: the try and the catch branch.
BotMessage(settlement) ==
    IF settlement.state = "fulfilled"
    THEN [sender |-> "bot", text |-> settlement.value]
    ELSE [sender |-> "bot", text |-> Str(CATCH_TEXT)]

\* Faulty variant of SendEnabled: the button is never disabled.
SendAlwaysEnabled == TRUE

\* The Send button is disabled while loading.
SendEnabled == ~isLoading

\* The input field is not editable while loading.
InputEditable == ~isLoading

\* Faulty variant of RaceOpen: every settlement resumes handleSend.
RaceOpenAlways(k) == race[k].state # "none"

\* Faulty variant of RaceOf: one race shared by the calls, the latest.
RaceOfLatestCall(k) == Len(race)

\* The promises raced by a call of handleSend are local to that call.
RaceOf(k) == k

\* Promise.race settles once: later settlements of its inputs are dropped.
RaceOpen(k) == race[k].state = "pending"

Init ==
    /\ question = <<>>
    /\ messages = <<>>
    /\ isLoading = FALSE
    /\ presses = 0
    /\ requests = <<>>
    /\ axios = <<>>
    /\ timers = <<>>
    /\ race = <<>>
    /\ source = 1
    /\ loads = <<>>

\* onChangeText={setQuestion}
OnChangeText(q) ==
    /\ InputEditable
    /\ q # question
    /\ question' = q
    /\ UNCHANGED <<messages, isLoading, presses, requests, axios, timers, race, source, loads>>

\* handleSend up to its await.
HandleSend ==
    /\ SendEnabled
    /\ presses < MaxPresses
    /\ presses' = presses + 1
    /\ IF Trim(question) = <<>>
       THEN UNCHANGED <<question, messages, isLoading, requests, axios, timers, race>>
       ELSE /\ messages' = Append(messages, UserMessage(question))
            /\ isLoading' = TRUE
            /\ timers' = Append(timers, "pending")
            /\ requests' = Append(requests, QueryRequest(question))
            /\ axios' = Append(axios, AxiosPending)
            /\ race' = Append(race, Pending)
            /\ UNCHANGED question
    /\ UNCHANGED <<source, loads>>

\* An input of the Promise.race of the k-th handleSend settles; when it is the
\* first, handleSend resumes after its await and runs to its end.
RaceInputSettles(k, settlement) ==
    IF RaceOpen(RaceOf(k)) /\ settlement.state # "pending"
    THEN /\ race' = [race EXCEPT ![RaceOf(k)] = settlement]
         /\ messages' = Append(messages, BotMessage(settlement))
         /\ isLoading' = FALSE
         /\ question' = <<>>
    ELSE UNCHANGED <<race, messages, isLoading, question>>

\* axios.get of request k settles and queryCSV returns.
AxiosSettles(k, outcome) ==
    /\ k \in 1..Len(axios)
    /\ axios[k].state = "pending"
    /\ axios' = [axios EXCEPT ![k] = outcome]
    /\ RaceInputSettles(k, queryCSV(outcome))
    /\ UNCHANGED <<presses, requests, timers, source, loads>>

\* The 7-second timer of the k-th handleSend fires.
TimerFires(k) ==
    /\ k \in 1..Len(timers)
    /\ timers[k] = "pending"
    /\ timers' = [timers EXCEPT ![k] = "fired"]
    /\ RaceInputSettles(k, TimeoutSettlement)
    /\ UNCHANGED <<presses, requests, axios, source, loads>>

ChatNext ==
    \/ \E q \in Texts : OnChangeText(q)
    \/ HandleSend
    \/ \E k \in 1..MaxPresses, o \in AxiosOutcomes : AxiosSettles(k, o)
    \/ \E k \in 1..MaxPresses : TimerFires(k)

Spec == Init /\ [][ChatNext]_vars

\* setTimeout callbacks always run; the backend owes no response.
FairSpec == Spec /\ \A k \in 1..MaxPresses : WF_vars(TimerFires(k))

(***************************************************************************)
(* loadData.                                                               *)
(***************************************************************************)
files == <<"Customers", "Detail", "Inventory", "Pricelist">>

\* String.prototype.toLowerCase on the names of the files.
ToLowerCase(name) ==
    CASE name = "Customers" -> "customers"
      [] name = "Detail" -> "detail"
      [] name = "Inventory" -> "inventory"
      [] name = "Pricelist" -> "pricelist"
      [] OTHER -> name

Keys == {"customers", "detail", "inventory", "pricelist"}

\* A slot of the record data: bound to an array of rows, or not bound.
Unbound == [bound |-> FALSE, rows |-> <<>>]
Bound(rows) == [bound |-> TRUE, rows |-> rows]

\* The text served for /<name>.csv by version ver of the files: a header
\* line and one line of data.
CsvText(name, ver) == <<[file |-> name, version |-> ver]>>

\* Papa.parse(csvText, {header: true, skipEmptyLines: true}).data: one
\* object per line of data.
parseCSV(csvText) == csvText

\* Faulty variant of CatchSlot: the catch branch binds nothing.
CatchSlotUnbound == Unbound

\* The catch branch: data[name.toLowerCase()] = [].
CatchSlot == Bound(<<>>)

NewLoad ==
    [pc |-> "fetch", i |-> 1, ver |-> 0,
     data |-> [key \in Keys |-> Unbound], failed |-> {}]

\* The end of an iteration of the loop over files.
NextFile(ld) ==
    IF ld.i = Len(files)
    THEN [ld EXCEPT !.pc = "log", !.ver = 0]
    ELSE [ld EXCEPT !.pc = "fetch", !.i = ld.i + 1, !.ver = 0]

\* An iteration that ends in its catch branch.
FileFailed(ld) ==
    NextFile([ld EXCEPT !.data[ToLowerCase(files[ld.i])] = CatchSlot,
                        !.failed = ld.failed \cup {files[ld.i]}])

\* An iteration that ends in its try branch.
FileParsed(ld) ==
    NextFile([ld EXCEPT !.data[ToLowerCase(files[ld.i])] =
                            Bound(parseCSV(CsvText(files[ld.i], ld.ver)))])

\* The sample rows logged after the loop: data.<key>.slice(0, 3) throws on a
\* key that is not bound.
LogSamplesThrows(ld) == \E key \in Keys : ~ld.data[key].bound

\* A call of loadData begins.
StartLoad ==
    /\ Len(loads) < MaxCalls
    /\ loads' = Append(loads, NewLoad)
    /\ UNCHANGED <<source, question, messages, isLoading, presses, requests, axios, timers, race>>

\* The CSV files are replaced by their next version.
ReplaceFiles ==
    /\ source < MaxVersion
    /\ source' = source + 1
    /\ UNCHANGED <<loads, question, messages, isLoading, presses, requests, axios, timers, race>>

\* await fetch(...) of call c settles: a response carries the version of the
\* files served when it is made.
FetchSettles(c, ok) ==
    /\ c \in 1..Len(loads)
    /\ loads[c].pc = "fetch"
    /\ loads' = [loads EXCEPT ![c] =
                    IF ok THEN [loads[c] EXCEPT !.pc = "text",
                                                !.ver = source]
                    ELSE FileFailed(loads[c])]
    /\ UNCHANGED <<source, question, messages, isLoading, presses, requests, axios, timers, race>>

\* await response.text() of call c settles and, when it fulfils, parseCSV runs.
TextSettles(c, outcome) ==
    /\ c \in 1..Len(loads)
    /\ loads[c].pc = "text"
    /\ loads' = [loads EXCEPT ![c] =
                    IF outcome = "parsed" THEN FileParsed(loads[c])
                    ELSE FileFailed(loads[c])]
    /\ UNCHANGED <<source, question, messages, isLoading, presses, requests, axios, timers, race>>

\* The samples are logged and data is returned.
ReturnData(c) ==
    /\ c \in 1..Len(loads)
    /\ loads[c].pc = "log"
    /\ loads' = [loads EXCEPT ![c].pc =
                    IF LogSamplesThrows(loads[c]) THEN "threw" ELSE "returned"]
    /\ UNCHANGED <<source, question, messages, isLoading, presses, requests, axios, timers, race>>

LoadNext ==
    \/ StartLoad
    \/ ReplaceFiles
    \/ \E c \in 1..MaxCalls, ok \in BOOLEAN : FetchSettles(c, ok)
    \/ \E c \in 1..MaxCalls, outcome \in {"parsed", "textRejects", "parseThrows"} :
           TextSettles(c, outcome)
    \/ \E c \in 1..MaxCalls : ReturnData(c)

LoadSpec == Init /\ [][LoadNext]_vars

(***************************************************************************)
(* Properties.                                                             *)
(***************************************************************************)
UserMsgs == SelectSeq(messages, LAMBDA m : m.sender = "user")
BotMsgs == SelectSeq(messages, LAMBDA m : m.sender = "bot")

\* The question holds no character other than whitespace.
OnlyWhitespace(q) == \A i \in 1..Len(q) : q[i] = " "

\* C1: whatever the outcome of the GET (2xx with a payload, non-2xx, network
\* failure, payload missing or without an answer field), the promise of
\* queryCSV is fulfilled, never rejected, with a string: the answer of the
\* response when it carries one, the fixed fallback otherwise.
C1_QueryCSVAlwaysString ==
    \A k \in 1..Len(axios) :
        axios[k].state # "pending" =>
            /\ queryCSV(axios[k]).state = "fulfilled"
            /\ queryCSV(axios[k]).value.t = "string"
            /\ queryCSV(axios[k]).value =
                  IF axios[k] = [state |-> "fulfilled", detail |-> "answer"]
                  THEN Str(BackendAnswer)
                  ELSE Str(FALLBACK_TEXT)

\* C2: every accepted question eventually gets a bot reply and the screen
\* leaves the loading state, even when the backend never answers; the timer
\* firing first appends the time-out message and ends loading, the request
\* settling first appends its result and ends loading.
C2_EveryQuestionAnswered ==
    /\ \A k \in 1..MaxPresses : (Len(UserMsgs) >= k) ~> (Len(BotMsgs) >= k)
    /\ isLoading ~> ~isLoading
    /\ [][\A k \in 1..Len(race) :
            race[k].state = "pending" /\ timers[k] = "pending" /\ timers'[k] = "fired"
            => /\ messages' = Append(messages, [sender |-> "bot", text |-> Str(TIMEOUT_TEXT)])
               /\ ~isLoading']_vars
    /\ [][\A k \in 1..Len(race) :
            race[k].state = "pending" /\ axios[k].state = "pending"
                /\ axios'[k].state # "pending"
            => /\ messages' = Append(messages,
                                     [sender |-> "bot", text |-> queryCSV(axios'[k]).value])
               /\ ~isLoading']_vars

\* C2 witness: a question whose request is still pending was answered by its
\* timer, and the screen left the loading state.
C2_Witness ==
    \E k \in 1..Len(race) :
        /\ timers[k] = "fired"
        /\ axios[k].state = "pending"
        /\ Len(BotMsgs) >= k
        /\ BotMsgs[k].text = Str(TIMEOUT_TEXT)
        /\ ~isLoading

\* C5: the request of a question carries that question's text and nothing
\* else, equal questions send equal requests whatever came before them, and
\* the reply of a question is decided by its own request and timer.
C5_NoSessionState ==
    /\ Len(requests) = Len(UserMsgs)
    /\ \A i \in 1..Len(requests) :
           requests[i] = [url |-> BASE_URL, params |-> [question |-> UserMsgs[i].text.v]]
    /\ \A i, j \in 1..Len(requests) :
           UserMsgs[i].text = UserMsgs[j].text => requests[i] = requests[j]
    /\ \A k \in 1..Len(BotMsgs) :
           \/ timers[k] = "fired" /\ BotMsgs[k].text = Str(TIMEOUT_TEXT)
           \/ /\ axios[k].state = "fulfilled"
              /\ BotMsgs[k].text \in {Str(BackendAnswer), Undefined, Str(FALLBACK_TEXT)}
           \/ axios[k].state = "rejected" /\ BotMsgs[k].text = Str(FALLBACK_TEXT)

\* C5 witness: the same question was sent twice, the second time after a
\* completed exchange.
C5_Witness ==
    /\ Len(requests) = 2
    /\ Len(messages) >= 3
    /\ UserMsgs[1].text = UserMsgs[2].text
    /\ requests[1] = requests[2]

\* C6: handleSend invoked on an empty or whitespace-only question changes
\* neither the messages, the loading flag nor the question, starts no timer
\* and sends no request.
C6_BlankSendIsNoOp ==
    [][presses' # presses /\ OnlyWhitespace(question)
       => UNCHANGED <<messages, isLoading, question, timers, requests, axios, race>>]_vars

\* C6 witness: handleSend ran on a whitespace-only question.
C6_Witness ==
    /\ presses > 0
    /\ question = <<" ">>
    /\ messages = <<>>
    /\ requests = <<>>

\* C7: an accepted handleSend appends one user message carrying the question
\* as submitted and later one bot message, whichever of response and timer
\* comes first and also when both come; messages are only ever appended.
C7_OneUserOneBot ==
    /\ [](/\ Len(UserMsgs) = Len(requests)
          /\ Len(BotMsgs) =
                Cardinality({k \in 1..Len(requests) :
                                timers[k] = "fired" \/ axios[k].state # "pending"}))
    /\ [][/\ Len(messages') >= Len(messages)
          /\ Len(messages') <= Len(messages) + 1
          /\ SubSeq(messages', 1, Len(messages)) = messages
          /\ requests' # requests
             => messages' = Append(messages, [sender |-> "user", text |-> Str(question)])]_vars

\* C7 witness: the response and the timer of a question have both come and
\* the history holds its user message and one bot message.
C7_Witness ==
    /\ Len(requests) = 1
    /\ timers[1] = "fired"
    /\ axios[1].state # "pending"
    /\ Len(messages) = 2
    /\ messages[1].text = Str(<<" ", "a", " ">>)

\* C8: while a question awaits its reply no second one is submitted: at most
\* one handleSend is in progress and the history alternates user message,
\* bot message, starting with a user message.
C8_OneQuestionAtATime ==
    /\ [](/\ Cardinality({k \in 1..Len(race) : race[k].state = "pending"}) <= 1
          /\ isLoading <=> \E k \in 1..Len(race) : race[k].state = "pending"
          /\ \A i \in 1..Len(messages) :
                messages[i].sender = IF i % 2 = 1 THEN "user" ELSE "bot")
    /\ [][isLoading => requests' = requests /\ UserMsgs' = UserMsgs]_vars

\* C8 witness: a second question awaits its reply after the first was answered.
C8_Witness ==
    /\ isLoading
    /\ Len(messages) = 3
    /\ presses = 2

\* C9: the bot message after the k-th user message is the result of the k-th
\* request or the time-out of the k-th timer; a response or timer that comes
\* after its question was answered changes neither the messages nor the
\* loading state.
C9_RepliesAreOwn ==
    /\ [](\A k \in 1..Len(BotMsgs) :
             \/ timers[k] = "fired" /\ BotMsgs[k].text = Str(TIMEOUT_TEXT)
             \/ axios[k].state # "pending" /\ BotMsgs[k].text = queryCSV(axios[k]).value)
    /\ [][\A k \in 1..Len(race) :
             race[k].state # "pending" /\ (timers'[k] # timers[k] \/ axios'[k] # axios[k])
             => UNCHANGED <<messages, isLoading, question>>]_vars

\* C9 witness: the first question timed out, its response came while the
\* second question was awaiting its reply, and the second still awaits it.
C9_Witness ==
    /\ Len(requests) = 2
    /\ timers[1] = "fired"
    /\ axios[1].state # "pending"
    /\ BotMsgs[1].text = Str(TIMEOUT_TEXT)
    /\ Len(messages) = 3
    /\ isLoading
    /\ race[2].state = "pending"

\* C3: whichever files fail (fetch rejects, reading the body rejects, parsing
\* throws), loadData does not throw and returns a record with the four keys
\* bound to arrays: the empty array for a file that failed, the parsed rows
\* for a file that did not, also after a file that failed.
C3_LoadDataTotal ==
    \A c \in 1..Len(loads) :
        /\ loads[c].pc # "threw"
        /\ loads[c].pc = "returned" =>
              \A n \in 1..Len(files) :
                  LET slot == loads[c].data[ToLowerCase(files[n])]
                  IN  /\ slot.bound
                      /\ files[n] \in loads[c].failed => slot.rows = <<>>
                      /\ files[n] \notin loads[c].failed =>
                            \E ver \in 1..MaxVersion :
                                slot.rows = <<[file |-> files[n], version |-> ver]>>

\* C3 witness: loadData returned after its first file failed and its last
\* file was loaded.
C3_Witness ==
    \E c \in 1..Len(loads) :
        /\ loads[c].pc = "returned"
        /\ "Customers" \in loads[c].failed
        /\ "Pricelist" \notin loads[c].failed
        /\ loads[c].data["pricelist"].rows # <<>>

\* C4: the tables of a record returned by loadData all belong to one version
\* of the files, also when the files are replaced during the call, and the
\* record is returned only with all four files processed.
C4_NoTornSnapshot ==
    \A c \in 1..Len(loads) :
        loads[c].pc = "returned" =>
            /\ \A key \in Keys : loads[c].data[key].bound
            /\ \A k1, k2 \in Keys :
                   loads[c].data[k1].rows # <<>> /\ loads[c].data[k2].rows # <<>>
                   => loads[c].data[k1].rows[1].version = loads[c].data[k2].rows[1].version

====
